---- MODULE Spec2Model ----
(***************************************************************************)
(* Online Parking System (src/app.py): a Flask application over three      *)
(* SQLite tables (users, slots, bookings) with cookie sessions.            *)
(*                                                                         *)
(* Text values that the program compares or converts (timestamps, emails)  *)
(* are sequences of one-character strings, so that SQLite's byte-wise TEXT *)
(* comparison and Python's datetime.fromisoformat / str.strip / str.lower  *)
(* are computed and not assumed.                                           *)
(***************************************************************************)
EXTENDS Integers, Sequences, FiniteSets, TLC

VARIABLES
    users,      \* rows of table users, in id order
    slots,      \* rows of table slots, in id order
    bookings,   \* rows of table bookings, in id order
    session,    \* per browser: session['user_id'], 0 when absent
    inflight,   \* customer_book requests between two of their SQL statements
    last,       \* the response to the latest request: handler, flash message, rows shown
    probe       \* inputs and outputs of the pure computations (SpecPure)

vars == <<users, slots, bookings, session, inflight, last, probe>>
db == <<users, slots, bookings>>

(***************************************************************************)
(* Bounds                                                                  *)
(***************************************************************************)
MaxBookings == 2            \* rows the bookings table may grow to
MaxInFlight == 2            \* concurrent customer_book requests (SpecConc)

Clients == {"c1"}           \* browsers, each with its own session cookie

(***************************************************************************)
(* Text                                                                    *)
(***************************************************************************)
\* The characters the model uses, in ASCII order.
Ascii == <<" ", "-", ".", "0", "1", "2", "3", "4", "5", "6", "7", "8", "9", ":",
           "@", "A", "B", "T", "a", "b", "c", "d", "e", "i", "l", "m", "n", "o",
           "p", "x">>
Ord == [c \in {Ascii[i] : i \in 1..Len(Ascii)} |->
            CHOOSE i \in 1..Len(Ascii) : Ascii[i] = c]

Min(S) == CHOOSE x \in S : \A y \in S : x <= y
Max(S) == CHOOSE x \in S : \A y \in S : x >= y

\* SQLite's comparison of two TEXT values (BINARY collation): memcmp over the
\* common prefix, then the shorter one first.
RECURSIVE TextLeqFrom(_, _, _)
TextLeqFrom(a, b, i) ==
    IF i > Len(a) THEN TRUE
    ELSE IF i > Len(b) THEN FALSE
    ELSE IF a[i] # b[i] THEN Ord[a[i]] < Ord[b[i]]
    ELSE TextLeqFrom(a, b, i + 1)
TextLeq(a, b) == TextLeqFrom(a, b, 1)

DigitChars == <<"0", "1", "2", "3", "4", "5", "6", "7", "8", "9">>
IsDigit(c) == \E i \in 1..10 : DigitChars[i] = c
DigitVal(c) == (CHOOSE i \in 1..10 : DigitChars[i] = c) - 1
D2(n) == <<DigitChars[(n \div 10) + 1], DigitChars[(n % 10) + 1]>>
D3(n) == <<DigitChars[(n \div 100) + 1]>> \o D2(n % 100)

AllDigits(s, from, to) == \A i \in from..to : IsDigit(s[i])
RECURSIVE Num(_, _, _)
Num(s, from, to) ==
    IF to < from THEN 0 ELSE 10 * Num(s, from, to - 1) + DigitVal(s[to])

\* str.strip() and str.lower() over the model's alphabet.
Lower(c) == IF c = "A" THEN "a" ELSE IF c = "B" THEN "b" ELSE IF c = "T" THEN "t" ELSE c
strip(s) ==
    LET keep == {i \in 1..Len(s) : s[i] # " "}
    IN  IF keep = {} THEN <<>> ELSE SubSeq(s, Min(keep), Max(keep))
lower(s) == [i \in 1..Len(s) |-> Lower(s[i])]

(***************************************************************************)
(* Timestamps                                                              *)
(***************************************************************************)
\* A datetime value: milliseconds since 2025-01-01 00:00 (dates of 2025 only).
DaysBeforeMonth == <<0, 31, 59, 90, 120, 151, 181, 212, 243, 273, 304, 334>>
DaysInMonth == <<31, 28, 31, 30, 31, 30, 31, 31, 30, 31, 30, 31>>

\* datetime.fromisoformat: YYYY-MM-DD[*HH[:MM[:SS[.fff]]]], any separator character.
\* The result is [ok |-> FALSE] for a ValueError, else the datetime.
fromisoformat(s) ==
    LET n == Len(s)
        shape ==
            /\ n \in {10, 13, 16, 19, 23}
            /\ AllDigits(s, 1, 4) /\ s[5] = "-" /\ AllDigits(s, 6, 7)
            /\ s[8] = "-" /\ AllDigits(s, 9, 10)
            /\ n >= 13 => AllDigits(s, 12, 13)
            /\ n >= 16 => s[14] = ":" /\ AllDigits(s, 15, 16)
            /\ n >= 19 => s[17] = ":" /\ AllDigits(s, 18, 19)
            /\ n >= 23 => s[20] = "." /\ AllDigits(s, 21, 23)
        year == Num(s, 1, 4)
        month == Num(s, 6, 7)
        day == Num(s, 9, 10)
        hour == IF n >= 13 THEN Num(s, 12, 13) ELSE 0
        minute == IF n >= 16 THEN Num(s, 15, 16) ELSE 0
        second == IF n >= 19 THEN Num(s, 18, 19) ELSE 0
        milli == IF n >= 23 THEN Num(s, 21, 23) ELSE 0
    IN  IF ~shape THEN [ok |-> FALSE, ms |-> 0]
        ELSE IF ~(year = 2025 /\ month \in 1..12) THEN [ok |-> FALSE, ms |-> 0]
        ELSE IF ~(day \in 1..DaysInMonth[month] /\ hour < 24 /\ minute < 60 /\ second < 60)
             THEN [ok |-> FALSE, ms |-> 0]
        ELSE [ok |-> TRUE,
              ms |-> ((((DaysBeforeMonth[month] + day - 1) * 24 + hour) * 60 + minute) * 60
                        + second) * 1000 + milli]

\* iso(dt): dt.strftime('%Y-%m-%d %H:%M') of the datetime `minutes` after 2025-01-01 00:00
\* (January only).
iso(minutes) ==
    <<"2", "0", "2", "5", "-", "0", "1", "-">> \o D2((minutes \div 1440) + 1) \o <<" ">>
        \o D2((minutes % 1440) \div 60) \o <<":">> \o D2(minutes % 60)

(***************************************************************************)
(* Request inputs                                                          *)
(***************************************************************************)
\* Timestamp text 2025-01-<day><sep><hh>:<mm>, as <input type="datetime-local"> sends it
\* with sep = "T".
Stamp(day, sep, hh, mm) ==
    <<"2", "0", "2", "5", "-", "0", "1", "-">> \o D2(day) \o <<sep>> \o D2(hh) \o <<":">> \o D2(mm)
StampS(day, sep, hh, mm, ss) == Stamp(day, sep, hh, mm) \o <<":">> \o D2(ss)
StampMs(day, sep, hh, mm, ss, ms) == StampS(day, sep, hh, mm, ss) \o <<".">> \o D3(ms)

Missing == <<>>                 \* request.args.get(...) is None or ''
Garbage == <<"x">>              \* text that is no ISO timestamp

\* The query-string values of start and end in Spec: one timestamp format.
FormTimes == {Stamp(1, "T", 10, 0), Stamp(1, "T", 11, 0), Stamp(1, "T", 12, 1)}
Windows == {w \in FormTimes \X FormTimes : fromisoformat(w[1]).ms < fromisoformat(w[2]).ms}
\* (start, end) of a request: the valid windows, and one refused for each reason.
WindowInputs ==
    Windows \cup {<<Missing, Stamp(1, "T", 11, 0)>>, <<Stamp(1, "T", 10, 0), Garbage>>,
                  <<Stamp(1, "T", 11, 0), Stamp(1, "T", 11, 0)>>}

SlotIdInputs == {2}                             \* <int:slot_id>
BookingIdInputs == 1..MaxBookings               \* <int:booking_id>
CountInputs == {<<"1">>, <<"2">>, <<"0">>, <<"x">>, <<"1", "0", "0", "0", "1">>}

AdminEmail == <<"a", "d", "m", "i", "n", "@", "e", "x", "a", "m", "p", "l", "e", ".", "c", "o", "m">>
EmailA == <<"a", "@", "x">>
EmailB == <<"b", "@", "x">>
\* The emails typed into the forms of Spec: one customer (also with capitals and blanks
\* around it) and the seeded admin.
EmailInputs == {EmailA, <<" ", "A", "@", "x", " ">>, AdminEmail}
PasswordInputs == {"pw", "admin123"}
NameInput == <<"c">>

(***************************************************************************)
(* Tables                                                                  *)
(***************************************************************************)
SeedSlots == 20

NoRow == [id |-> 0]

\* werkzeug's salted hash: only verification against the same password succeeds.
generate_password_hash(pw) == [hashed |-> pw]
\* Variant: a verification that accepts any password.
check_password_hash_Any(h, pw) == TRUE
check_password_hash(h, pw) == h.hashed = pw

\* Variant: range(1, count).
FreshSlots_OffByOne(count) ==
    [n \in 1..(count - 1) |-> [id |-> n, slot_number |-> n, is_active |-> 1]]
\* INSERT INTO slots(slot_number,is_active) VALUES (n,1) for n in 1..count into the
\* empty table with its AUTOINCREMENT sequence at 0: ids are 1..count.
FreshSlots(count) == [n \in 1..count |-> [id |-> n, slot_number |-> n, is_active |-> 1]]

SelectById(table, id) ==
    IF \E i \in 1..Len(table) : table[i].id = id
    THEN table[CHOOSE i \in 1..Len(table) : table[i].id = id]
    ELSE NoRow

NextId(table) == IF Len(table) = 0 THEN 1 ELSE table[Len(table)].id + 1

\* init_db on the tables (u, s): the schema is created if missing, the admin is seeded
\* if no user has its email, the slots are seeded if the table is empty.
init_db_users(u) ==
    IF \E i \in 1..Len(u) : u[i].email = AdminEmail THEN u
    ELSE Append(u, [id |-> NextId(u), name |-> <<"A", "d", "m", "i", "n">>, email |-> AdminEmail,
                    password_hash |-> generate_password_hash("admin123"), is_admin |-> 1])
\* Variant: the slots are seeded without the COUNT(*) test.
init_db_slots_Always(s) == FreshSlots(SeedSlots)
init_db_slots(s) == IF Len(s) = 0 THEN FreshSlots(SeedSlots) ELSE s

NoProbe == [kind |-> "none"]
NoRequest == [pc |-> "idle"]
NoResponse == [op |-> "none", flash |-> "", arg |-> <<>>, rows |-> <<>>]

Init ==
    /\ users = init_db_users(<<>>)
    /\ slots = init_db_slots(<<>>)
    /\ bookings = <<>>
    /\ session = [c \in Clients |-> 0]
    /\ inflight = [r \in 1..MaxInFlight |-> NoRequest]
    /\ last = NoResponse
    /\ probe = NoProbe

(***************************************************************************)
(* Authentication                                                          *)
(***************************************************************************)
\* current_user(): the users row of session['user_id'], NoRow for None.
current_user(c) == IF session[c] = 0 THEN NoRow ELSE SelectById(users, session[c])

\* The response: the handler, the message it flashes, the request's argument where the
\* response depends on it, and the rows the rendered page lists.
ReplyWith(op, flash, arg, rows) == last' = [op |-> op, flash |-> flash, arg |-> arg, rows |-> rows]
Reply(op, flash) == ReplyWith(op, flash, <<>>, <<>>)

\* ensure_db: init_db() before the first request of a server process, so once more
\* after every restart of the server on the database file as it then is. Sessions are
\* cookies signed with the fixed secret key and outlive the restart.
ensure_db ==
    /\ users' = init_db_users(users)
    /\ slots' = init_db_slots(slots)
    /\ Reply("init_db", "")
    /\ UNCHANGED <<bookings, session, inflight, probe>>

\* The wrappers of login_required and admin_required: the flash of the redirect they
\* answer with, "" when the wrapped handler runs.
login_required(c) == IF current_user(c) = NoRow THEN "Please log in first." ELSE ""
\* Variant: without user["is_admin"] != 1.
admin_required_LoginOnly(c) ==
    IF current_user(c) = NoRow THEN "Admin access required." ELSE ""
admin_required(c) ==
    IF current_user(c) = NoRow \/ current_user(c).is_admin # 1
    THEN "Admin access required." ELSE ""

\* Variant: request.form['email'] stored as typed.
register_NoNormalise(name, rawEmail, pw) ==
    /\ IF \E i \in 1..Len(users) : users[i].email = rawEmail
       THEN users' = users /\ Reply("register", "Email already exists.")
       ELSE /\ users' = Append(users, [id |-> NextId(users), name |-> strip(name),
                                       email |-> rawEmail,
                                       password_hash |-> generate_password_hash(pw),
                                       is_admin |-> 0])
            /\ Reply("register", "Registered! Please log in.")
    /\ UNCHANGED <<slots, bookings, session, inflight, probe>>
\* Variant: the INSERT sets is_admin to 1.
register_AsAdmin(name, rawEmail, pw) ==
    /\ IF \E i \in 1..Len(users) : users[i].email = lower(strip(rawEmail))
       THEN users' = users /\ Reply("register", "Email already exists.")
       ELSE /\ users' = Append(users, [id |-> NextId(users), name |-> strip(name),
                                       email |-> lower(strip(rawEmail)),
                                       password_hash |-> generate_password_hash(pw),
                                       is_admin |-> 1])
            /\ Reply("register", "Registered! Please log in.")
    /\ UNCHANGED <<slots, bookings, session, inflight, probe>>
\* POST /register
register(name, rawEmail, pw) ==
    LET email == lower(strip(rawEmail))
    IN  /\ IF \E i \in 1..Len(users) : users[i].email = email
           THEN \* sqlite3.IntegrityError: UNIQUE constraint failed: users.email
                /\ users' = users
                /\ Reply("register", "Email already exists.")
           ELSE /\ users' = Append(users, [id |-> NextId(users), name |-> strip(name),
                                           email |-> email,
                                           password_hash |-> generate_password_hash(pw),
                                           is_admin |-> 0])
                /\ Reply("register", "Registered! Please log in.")
        /\ UNCHANGED <<slots, bookings, session, inflight, probe>>

\* POST /login
login(c, rawEmail, pw) ==
    LET email == lower(strip(rawEmail))
        found == {i \in 1..Len(users) : users[i].email = email}
    IN  /\ IF found # {} /\ check_password_hash(users[Min(found)].password_hash, pw)
           THEN /\ session' = [session EXCEPT ![c] = users[Min(found)].id]
                /\ Reply("login", "Welcome back!")
           ELSE /\ session' = session
                /\ Reply("login", "Invalid credentials.")
        /\ UNCHANGED <<users, slots, bookings, inflight, probe>>

\* GET /logout
logout(c) ==
    /\ session' = [session EXCEPT ![c] = 0]
    /\ Reply("logout", "Logged out.")
    /\ UNCHANGED <<users, slots, bookings, inflight, probe>>

(***************************************************************************)
(* Booking engine                                                          *)
(***************************************************************************)
\* Variant: b.start_time <= ? in place of b.start_time >= ?.
Overlaps_Swapped(b, start, end) ==
    ~(TextLeq(b.end_time, start) \/ TextLeq(b.start_time, end))
\* Variant: < and > in place of <= and >=.
Overlaps_Strict(b, start, end) ==
    ~(~TextLeq(start, b.end_time) \/ ~TextLeq(b.start_time, end))
\* The SQL condition NOT (b.end_time <= ? OR b.start_time >= ?) with (start, end) bound:
\* a comparison of TEXT values.
Overlaps(b, start, end) ==
    ~(TextLeq(b.end_time, start) \/ TextLeq(end, b.start_time))

\* Variant: without b.status='booked'.
Conflict_AnyStatus(table, slot_id, start, end) ==
    \E i \in 1..Len(table) :
        table[i].slot_id = slot_id /\ Overlaps(table[i], start, end)
\* EXISTS (SELECT 1 FROM bookings b WHERE b.slot_id=? AND b.status='booked' AND NOT (...))
Conflict(table, slot_id, start, end) ==
    \E i \in 1..Len(table) :
        /\ table[i].slot_id = slot_id
        /\ table[i].status = "booked"
        /\ Overlaps(table[i], start, end)

\* Variant: without the end_dt <= start_dt check.
ValidWindow_AnyOrder(start, end) == fromisoformat(start).ok /\ fromisoformat(end).ok
\* The try block of customer_search and customer_book: both ends parse and the end is
\* after the start.
ValidWindow(start, end) ==
    LET start_dt == fromisoformat(start)
        end_dt == fromisoformat(end)
    IN  start_dt.ok /\ end_dt.ok /\ ~(end_dt.ms <= start_dt.ms)

\* max(1, int(((end_dt - start_dt).total_seconds() + 3599)//3600)); total_seconds() is
\* the difference in seconds with its fraction, // the floor division.
duration_hours(start_dt, end_dt) ==
    LET h == ((end_dt.ms - start_dt.ms) + 3599000) \div 3600000
    IN  IF h >= 1 THEN h ELSE 1
Amount(start_dt, end_dt) == 20 * duration_hours(start_dt, end_dt)

\* datetime.now() when the row with the given id is written: one minute per row after
\* 2025-01-01 09:00.
Now(rowId) == 540 + rowId

\* Variant: an INSERT that takes effect only if no booking conflicts at that moment.
InsertBooking_IfFree(table, user_id, slot_id, start, end, amount) ==
    IF Conflict(table, slot_id, start, end) THEN table
    ELSE Append(table, [id |-> NextId(table), user_id |-> user_id, slot_id |-> slot_id,
                        start_time |-> start, end_time |-> end, status |-> "booked",
                        amount |-> amount, created_at |-> iso(Now(NextId(table)))])
\* INSERT INTO bookings(user_id,slot_id,start_time,end_time,status,amount,created_at)
InsertBooking(table, user_id, slot_id, start, end, amount) ==
    Append(table, [id |-> NextId(table), user_id |-> user_id, slot_id |-> slot_id,
                   start_time |-> start, end_time |-> end, status |-> "booked",
                   amount |-> amount, created_at |-> iso(Now(NextId(table)))])

\* Variant: without the NOT EXISTS filter.
SearchRows_NoBookings(start, end) ==
    SortSeq(SelectSeq(slots, LAMBDA s : s.is_active = 1),
            LAMBDA a, b : a.slot_number < b.slot_number)
\* Variant: without s.is_active=1.
SearchRows_Inactive(start, end) ==
    SortSeq(SelectSeq(slots, LAMBDA s : ~Conflict(bookings, s.id, start, end)),
            LAMBDA a, b : a.slot_number < b.slot_number)
\* SELECT s.* FROM slots s WHERE s.is_active=1 AND NOT EXISTS (...) ORDER BY s.slot_number
SearchRows(start, end) ==
    SortSeq(SelectSeq(slots, LAMBDA s : s.is_active = 1 /\ ~Conflict(bookings, s.id, start, end)),
            LAMBDA a, b : a.slot_number < b.slot_number)

\* GET /customer/search
customer_search(c, start, end) ==
    /\ IF login_required(c) # "" THEN Reply("customer_search", login_required(c))
       ELSE IF current_user(c).is_admin # 0
       THEN Reply("customer_search", "Admins cannot book. Use a customer account.")
       ELSE IF start = Missing \/ end = Missing THEN Reply("customer_search", "")
       ELSE IF ~ValidWindow(start, end) THEN Reply("customer_search", "Invalid date/time")
       ELSE ReplyWith("customer_search", "", <<start, end>>, SearchRows(start, end))
    /\ UNCHANGED <<users, slots, bookings, session, inflight, probe>>

\* The checks of customer_book before its first SQL statement: the flash of the
\* redirect, "" when the handler goes on.
BookRefusal(c, start, end) ==
    IF login_required(c) # "" THEN login_required(c)
    ELSE IF current_user(c).is_admin # 0 THEN "Admins cannot book."
    ELSE IF start = Missing \/ end = Missing THEN "Provide start and end time via search."
    ELSE IF ~ValidWindow(start, end) THEN "Invalid date/time"
    ELSE ""

\* Variant: without s['is_active'] != 1.
SlotUnavailable_ExistsOnly(table, slot_id) == SelectById(table, slot_id) = NoRow
\* s = SELECT * FROM slots WHERE id=?; not s or s['is_active'] != 1
SlotUnavailable(table, slot_id) ==
    SelectById(table, slot_id) = NoRow \/ SelectById(table, slot_id).is_active # 1

\* GET /customer/book/<slot_id>, run to completion.
customer_book(c, slot_id, start, end) ==
    /\ IF BookRefusal(c, start, end) # ""
       THEN bookings' = bookings /\ Reply("customer_book", BookRefusal(c, start, end))
       ELSE IF SlotUnavailable(slots, slot_id)
       THEN bookings' = bookings /\ Reply("customer_book", "Slot not available.")
       ELSE IF Conflict(bookings, slot_id, start, end)
       THEN bookings' = bookings /\ Reply("customer_book", "Sorry, this slot was just booked.")
       ELSE /\ Len(bookings) < MaxBookings
            /\ bookings' = InsertBooking(bookings, current_user(c).id, slot_id, start, end,
                                         Amount(fromisoformat(start), fromisoformat(end)))
            /\ Reply("customer_book", "Booked")
    /\ UNCHANGED <<users, slots, session, inflight, probe>>

\* SELECT b.*, s.slot_number FROM bookings b JOIN slots s ON s.id=b.slot_id
\* WHERE b.user_id=? ORDER BY b.created_at DESC
CustomerBookingRows(user_id) ==
    LET joined == SelectSeq(bookings, LAMBDA b : b.user_id = user_id
                                                  /\ SelectById(slots, b.slot_id) # NoRow)
        rows == [i \in 1..Len(joined) |->
                    joined[i] @@ [slot_number |-> SelectById(slots, joined[i].slot_id).slot_number]]
    IN  SortSeq(rows, LAMBDA a, b : ~TextLeq(a.created_at, b.created_at))

\* GET /customer/bookings
customer_bookings(c) ==
    /\ IF login_required(c) # "" THEN Reply("customer_bookings", login_required(c))
       ELSE ReplyWith("customer_bookings", "", <<>>, CustomerBookingRows(current_user(c).id))
    /\ UNCHANGED <<users, slots, bookings, session, inflight, probe>>

\* Variant: without WHERE id=?.
CancelRow_NoWhere(table, booking_id) ==
    [i \in 1..Len(table) |-> [table[i] EXCEPT !.status = "cancelled"]]
\* Variant: SET status='completed'.
CancelRow_Completed(table, booking_id) ==
    [i \in 1..Len(table) |->
        IF table[i].id = booking_id THEN [table[i] EXCEPT !.status = "completed"] ELSE table[i]]
\* UPDATE bookings SET status='cancelled' WHERE id=?
CancelRow(table, booking_id) ==
    [i \in 1..Len(table) |->
        IF table[i].id = booking_id THEN [table[i] EXCEPT !.status = "cancelled"] ELSE table[i]]

\* Variant: without AND user_id=?.
OwnBooking_AnyUser(booking_id, user_id) == SelectById(bookings, booking_id)
\* b = SELECT * FROM bookings WHERE id=? AND user_id=?
OwnBooking(booking_id, user_id) ==
    IF SelectById(bookings, booking_id) # NoRow /\ SelectById(bookings, booking_id).user_id = user_id
    THEN SelectById(bookings, booking_id) ELSE NoRow

\* Variant: no status check.
Cancellable_Any(b) == TRUE
\* b['status'] != 'booked' refuses the cancellation.
Cancellable(b) == b.status = "booked"

\* GET /customer/cancel/<booking_id>
customer_cancel(c, booking_id) ==
    /\ IF login_required(c) # ""
       THEN bookings' = bookings /\ Reply("customer_cancel", login_required(c))
       ELSE IF OwnBooking(booking_id, current_user(c).id) = NoRow
       THEN bookings' = bookings
            /\ ReplyWith("customer_cancel", "Booking not found.", <<booking_id>>, <<>>)
       ELSE IF ~Cancellable(OwnBooking(booking_id, current_user(c).id))
       THEN bookings' = bookings
            /\ ReplyWith("customer_cancel", "Only active bookings can be cancelled.",
                         <<booking_id>>, <<>>)
       ELSE /\ bookings' = CancelRow(bookings, booking_id)
            /\ ReplyWith("customer_cancel", "Booking cancelled.", <<booking_id>>, <<>>)
    /\ UNCHANGED <<users, slots, session, inflight, probe>>

(***************************************************************************)
(* Admin                                                                   *)
(***************************************************************************)
\* GET /admin: the four counts of the dashboard.
admin_dashboard(c) ==
    /\ IF admin_required(c) # "" THEN Reply("admin_dashboard", admin_required(c))
       ELSE ReplyWith("admin_dashboard", "",
                      <<Len(slots), Len(SelectSeq(slots, LAMBDA s : s.is_active = 1)),
                        Len(users), Len(bookings)>>, <<>>)
    /\ UNCHANGED <<users, slots, bookings, session, inflight, probe>>

\* GET /admin/slots: SELECT * FROM slots ORDER BY slot_number
admin_slots(c) ==
    /\ IF admin_required(c) # "" THEN Reply("admin_slots", admin_required(c))
       ELSE ReplyWith("admin_slots", "", <<>>,
                      SortSeq(slots, LAMBDA a, b : a.slot_number < b.slot_number))
    /\ UNCHANGED <<users, slots, bookings, session, inflight, probe>>

\* GET /admin/slots/toggle/<slot_id>
admin_toggle_slot(c, slot_id) ==
    /\ IF admin_required(c) # ""
       THEN slots' = slots /\ Reply("admin_toggle_slot", admin_required(c))
       ELSE IF SelectById(slots, slot_id) = NoRow
       THEN slots' = slots /\ Reply("admin_toggle_slot", "Slot not found.")
       ELSE /\ slots' = [i \in 1..Len(slots) |->
                            IF slots[i].id = slot_id
                            THEN [slots[i] EXCEPT !.is_active = IF slots[i].is_active = 1 THEN 0 ELSE 1]
                            ELSE slots[i]]
            /\ Reply("admin_toggle_slot", "Slot toggled")
    /\ UNCHANGED <<users, bookings, session, inflight, probe>>

\* SELECT b.*, s.slot_number, u.name, u.email FROM bookings b JOIN slots s ON s.id=b.slot_id
\* JOIN users u ON u.id=b.user_id ORDER BY b.created_at DESC
AdminBookingRows ==
    LET joined == SelectSeq(bookings, LAMBDA b : SelectById(slots, b.slot_id) # NoRow
                                                  /\ SelectById(users, b.user_id) # NoRow)
        rows == [i \in 1..Len(joined) |->
                    joined[i] @@ [slot_number |-> SelectById(slots, joined[i].slot_id).slot_number,
                                  user_name |-> SelectById(users, joined[i].user_id).name,
                                  user_email |-> SelectById(users, joined[i].user_id).email]]
    IN  SortSeq(rows, LAMBDA a, b : ~TextLeq(a.created_at, b.created_at))

\* GET /admin/bookings
admin_bookings(c) ==
    /\ IF admin_required(c) # "" THEN Reply("admin_bookings", admin_required(c))
       ELSE ReplyWith("admin_bookings", "", <<>>, AdminBookingRows)
    /\ UNCHANGED <<users, slots, bookings, session, inflight, probe>>

\* int(text) of decimal digits; [ok |-> FALSE] for the ValueError of any other text.
int(text) ==
    IF Len(text) > 0 /\ AllDigits(text, 1, Len(text))
    THEN [ok |-> TRUE, n |-> Num(text, 1, Len(text))]
    ELSE [ok |-> FALSE, n |-> 0]

\* The try block of admin_set_slots: the count parses and lies in 1..10000.
ValidCount(countText) == int(countText).ok /\ ~(int(countText).n < 1 \/ int(countText).n > 10000)

\* Variant: the DELETE FROM slots also removes the bookings of the deleted slots.
admin_set_slots_Cascade(c, countText) ==
    /\ IF admin_required(c) # ""
       THEN slots' = slots /\ bookings' = bookings /\ Reply("admin_set_slots", admin_required(c))
       ELSE IF ~ValidCount(countText)
       THEN slots' = slots /\ bookings' = bookings /\ Reply("admin_set_slots", "Invalid count")
       ELSE /\ slots' = FreshSlots(int(countText).n)
            /\ bookings' = <<>>
            /\ ReplyWith("admin_set_slots", "Recreated slots.", <<int(countText).n>>, <<>>)
    /\ UNCHANGED <<users, session, inflight, probe>>
\* POST /admin/set-slots
admin_set_slots(c, countText) ==
    /\ IF admin_required(c) # ""
       THEN slots' = slots /\ Reply("admin_set_slots", admin_required(c))
       ELSE IF ~ValidCount(countText)
       THEN slots' = slots /\ Reply("admin_set_slots", "Invalid count")
       ELSE /\ slots' = FreshSlots(int(countText).n)
            /\ ReplyWith("admin_set_slots", "Recreated slots.", <<int(countText).n>>, <<>>)
    /\ UNCHANGED <<users, bookings, session, inflight, probe>>

(***************************************************************************)
(* Sequential execution: every request runs to completion                  *)
(***************************************************************************)
Next ==
    \/ \E e \in EmailInputs : register(NameInput, e, "pw")
    \/ \E c \in Clients, e \in EmailInputs, pw \in PasswordInputs : login(c, e, pw)
    \/ \E c \in Clients : logout(c)
    \/ \E c \in Clients, w \in WindowInputs : customer_search(c, w[1], w[2])
    \/ \E c \in Clients, id \in SlotIdInputs, w \in WindowInputs : customer_book(c, id, w[1], w[2])
    \/ \E c \in Clients : customer_bookings(c)
    \/ \E c \in Clients, id \in BookingIdInputs : customer_cancel(c, id)
    \/ \E c \in Clients : admin_dashboard(c)
    \/ \E c \in Clients : admin_slots(c)
    \/ \E c \in Clients, id \in SlotIdInputs : admin_toggle_slot(c, id)
    \/ \E c \in Clients : admin_bookings(c)
    \/ \E c \in Clients, n \in CountInputs : admin_set_slots(c, n)
    \/ ensure_db

Spec == Init /\ [][Next]_vars

(***************************************************************************)
(* Concurrent execution: customer_book between its SQL statements          *)
(***************************************************************************)
\* Each SELECT of a handler reads the committed tables of its moment (sqlite3 opens a
\* transaction only before the INSERT), so another request's commit may fall between
\* two statements of customer_book. A request in flight keeps its locals. Three
\* browsers stay logged in: two customers (ids 2 and 3) and the admin (id 1).
ConcClients == {"c1", "c2", "c3"}
ConcSessions == [c \in ConcClients |-> IF c = "c1" THEN 2 ELSE IF c = "c2" THEN 3 ELSE 1]

AddUser(table, name, email, pw) ==
    Append(table, [id |-> NextId(table), name |-> name, email |-> email,
                   password_hash |-> generate_password_hash(pw), is_admin |-> 0])

\* The state after init_db, two registrations and three logins.
InitConc ==
    /\ users = AddUser(AddUser(init_db_users(<<>>), NameInput, EmailA, "pw"), NameInput, EmailB, "pw")
    /\ slots = init_db_slots(<<>>)
    /\ bookings = <<>>
    /\ session = ConcSessions
    /\ inflight = [r \in 1..MaxInFlight |-> NoRequest]
    /\ last = NoResponse
    /\ probe = NoProbe

InFlight == {r \in DOMAIN inflight : inflight[r].pc # "idle"}

\* Lines 535-553: user = current_user(), the role check, the parsing of the window.
\* The request takes the first free place of inflight.
BookBegin(r, c, slot_id, start, end) ==
    /\ inflight[r].pc = "idle"
    /\ \A q \in DOMAIN inflight : q < r => inflight[q].pc # "idle"
    /\ Len(bookings) + Cardinality(InFlight) < MaxBookings
    /\ IF BookRefusal(c, start, end) # ""
       THEN inflight' = inflight /\ Reply("customer_book", BookRefusal(c, start, end))
       ELSE /\ inflight' = [inflight EXCEPT ![r] =
                               [pc |-> "slot", user_id |-> current_user(c).id, slot_id |-> slot_id,
                                start |-> start, end |-> end]]
            /\ last' = last
    /\ UNCHANGED <<users, slots, bookings, session, probe>>

\* Lines 555-560: the SELECT of the slot.
BookSelectSlot(r) ==
    /\ inflight[r].pc = "slot"
    /\ IF SlotUnavailable(slots, inflight[r].slot_id)
       THEN inflight' = [inflight EXCEPT ![r] = NoRequest]
            /\ Reply("customer_book", "Slot not available.")
       ELSE inflight' = [inflight EXCEPT ![r].pc = "conflict"] /\ last' = last
    /\ UNCHANGED <<users, slots, bookings, session, probe>>

\* Lines 562-574: the SELECT of a conflicting booking.
BookSelectConflict(r) ==
    /\ inflight[r].pc = "conflict"
    /\ IF Conflict(bookings, inflight[r].slot_id, inflight[r].start, inflight[r].end)
       THEN inflight' = [inflight EXCEPT ![r] = NoRequest]
            /\ Reply("customer_book", "Sorry, this slot was just booked.")
       ELSE inflight' = [inflight EXCEPT ![r].pc = "insert"] /\ last' = last
    /\ UNCHANGED <<users, slots, bookings, session, probe>>

\* Lines 576-586: the price, the INSERT and the commit.
BookInsert(r) ==
    /\ inflight[r].pc = "insert"
    /\ bookings' = InsertBooking(bookings, inflight[r].user_id, inflight[r].slot_id,
                                 inflight[r].start, inflight[r].end,
                                 Amount(fromisoformat(inflight[r].start),
                                        fromisoformat(inflight[r].end)))
    /\ inflight' = [inflight EXCEPT ![r] = NoRequest]
    /\ Reply("customer_book", "Booked")
    /\ UNCHANGED <<users, slots, session, probe>>

NextConc ==
    \/ \E r \in DOMAIN inflight, c \in ConcClients, id \in SlotIdInputs, w \in Windows :
            BookBegin(r, c, id, w[1], w[2])
    \/ \E r \in DOMAIN inflight : BookSelectSlot(r)
    \/ \E r \in DOMAIN inflight : BookSelectConflict(r)
    \/ \E r \in DOMAIN inflight : BookInsert(r)
    \/ \E c \in ConcClients, id \in BookingIdInputs : customer_cancel(c, id)

SpecConc == InitConc /\ [][NextConc]_vars

(***************************************************************************)
(* Concurrent execution: customer_book beside the admin's slot changes     *)
(***************************************************************************)
\* admin_toggle_slot and admin_set_slots commit in one step; the commit may fall
\* between two statements of a customer_book request in flight.
NextAdminRace ==
    \/ \E r \in DOMAIN inflight, c \in ConcClients, id \in SlotIdInputs, w \in Windows :
            BookBegin(r, c, id, w[1], w[2])
    \/ \E r \in DOMAIN inflight : BookSelectSlot(r)
    \/ \E r \in DOMAIN inflight : BookSelectConflict(r)
    \/ \E r \in DOMAIN inflight : BookInsert(r)
    \/ \E c \in ConcClients, id \in SlotIdInputs : admin_toggle_slot(c, id)
    \/ \E c \in ConcClients, n \in CountInputs : admin_set_slots(c, n)

SpecAdminRace == InitConc /\ [][NextAdminRace]_vars

(***************************************************************************)
(* Sequential execution: two customers who book, cancel and search         *)
(***************************************************************************)
\* The sessions of InitConc, every request run to completion; the admin toggles the
\* slot the customers ask for.
NextRebook ==
    \/ \E c \in ConcClients, id \in SlotIdInputs, w \in Windows :
            customer_book(c, id, w[1], w[2])
    \/ \E c \in ConcClients, id \in BookingIdInputs : customer_cancel(c, id)
    \/ \E c \in ConcClients, w \in Windows : customer_search(c, w[1], w[2])
    \/ \E c \in ConcClients, id \in SlotIdInputs : admin_toggle_slot(c, id)

SpecRebook == InitConc /\ [][NextRebook]_vars

(***************************************************************************)
(* Sequential execution with timestamps in several accepted formats        *)
(***************************************************************************)
\* The query string of /customer/book is free text: whatever fromisoformat parses is
\* accepted, here with "T" or a space before the time and with or without seconds.
FormatTimes ==
    {Stamp(1, "T", 10, 0), Stamp(1, "T", 12, 0), Stamp(1, " ", 10, 30), Stamp(1, " ", 11, 0),
     StampS(1, "T", 10, 0, 0), StampS(1, "T", 11, 0, 0)}
FormatWindows == {w \in FormatTimes \X FormatTimes : ValidWindow(w[1], w[2])}

NextFormats ==
    \/ \E c \in ConcClients, id \in SlotIdInputs, w \in FormatWindows :
            customer_book(c, id, w[1], w[2])
    \/ \E c \in ConcClients, id \in BookingIdInputs : customer_cancel(c, id)

SpecFormats == InitConc /\ [][NextFormats]_vars

(***************************************************************************)
(* The pure computations on bounded inputs                                 *)
(***************************************************************************)
\* Timestamps in four formats: "T" or a space before the time, minutes, seconds or
\* milliseconds as the last field.
PureTimes ==
    FormTimes
    \cup {Stamp(1, " ", 10, 30), Stamp(1, " ", 11, 0), Stamp(2, " ", 9, 0)}
    \cup {StampS(1, "T", 10, 0, 0), StampS(1, "T", 11, 0, 0), StampS(1, "T", 11, 1, 0)}
    \cup {StampMs(1, "T", 10, 0, 0, 0), StampMs(1, "T", 11, 0, 0, 0), StampMs(1, "T", 11, 0, 0, 500),
          StampMs(1, "T", 11, 1, 0, 500)}
PureWindows == {w \in PureTimes \X PureTimes : ValidWindow(w[1], w[2])}

InitPure ==
    /\ users = init_db_users(<<>>)
    /\ slots = init_db_slots(<<>>)
    /\ bookings = <<>>
    /\ session = [c \in Clients |-> 0]
    /\ inflight = [r \in 1..MaxInFlight |-> NoRequest]
    /\ last = NoResponse
    /\ \E stored \in PureWindows, requested \in PureWindows :
            probe = [kind |-> "input", stored |-> stored, requested |-> requested]

\* The conflict condition of customer_book and customer_search on one stored row.
ProbeOverlaps ==
    /\ probe.kind = "input"
    /\ probe' = [kind |-> "conflict", stored |-> probe.stored, requested |-> probe.requested,
                 conflict |-> Overlaps([start_time |-> probe.stored[1], end_time |-> probe.stored[2]],
                                       probe.requested[1], probe.requested[2])]
    /\ UNCHANGED <<users, slots, bookings, session, inflight, last>>

\* The price customer_book computes for the requested window.
ProbeAmount ==
    /\ probe.kind = "input"
    /\ probe' = [kind |-> "amount", stored |-> probe.stored, requested |-> probe.requested,
                 amount |-> Amount(fromisoformat(probe.requested[1]),
                                   fromisoformat(probe.requested[2]))]
    /\ UNCHANGED <<users, slots, bookings, session, inflight, last>>

NextPure == ProbeOverlaps \/ ProbeAmount

SpecPure == InitPure /\ [][NextPure]_vars

(***************************************************************************)
(* Properties                                                              *)
(***************************************************************************)
Time(text) == fromisoformat(text).ms

\* The half-open intervals [s1, e1) and [s2, e2) share a point in time.
Meet(s1, e1, s2, e2) == Time(s1) < Time(e2) /\ Time(s2) < Time(e1)

\* Two timestamps in the same format: the same fields and the same separator.
SameFormat(a, b) == Len(a) = Len(b) /\ a[11] = b[11]

Booked(i) == bookings[i].status = "booked"
DoubleBooked(i, j) ==
    /\ i < j /\ Booked(i) /\ Booked(j)
    /\ bookings[i].slot_id = bookings[j].slot_id
    /\ Meet(bookings[i].start_time, bookings[i].end_time,
            bookings[j].start_time, bookings[j].end_time)

\* C1: with requests run one at a time and every timestamp in one format, no two
\* 'booked' bookings of the same slot have overlapping windows [start, end).
C1_NoDoubleBooking ==
    \A i, j \in 1..Len(bookings) : ~DoubleBooked(i, j)

\* Two 'booked' bookings share a slot (their windows touch), the second just made.
C1_Witness ==
    /\ last.op = "customer_book" /\ last.flash = "Booked"
    /\ \E i, j \in 1..Len(bookings) :
            /\ i < j /\ Booked(i) /\ Booked(j)
            /\ bookings[i].slot_id = bookings[j].slot_id
            /\ bookings[i].end_time = bookings[j].start_time

\* C2: a customer_book request that has passed its conflict SELECT inserts its booking
\* when it resumes, whatever was committed since; so two requests for one slot and
\* overlapping windows that both pass the SELECT before either INSERT both succeed.
C2_InsertAfterCheckSucceeds ==
    [][\A r \in DOMAIN inflight :
            (inflight[r].pc = "insert" /\ inflight'[r].pc = "idle")
            => /\ Len(bookings') = Len(bookings) + 1
               /\ bookings'[Len(bookings')].status = "booked"
               /\ bookings'[Len(bookings')].user_id = inflight[r].user_id
               /\ bookings'[Len(bookings')].slot_id = inflight[r].slot_id
               /\ bookings'[Len(bookings')].start_time = inflight[r].start
               /\ bookings'[Len(bookings')].end_time = inflight[r].end
               /\ last'.flash = "Booked"]_vars

\* Both requests have returned and their two 'booked' rows overlap on one slot.
C2_Witness ==
    /\ InFlight = {}
    /\ \E i, j \in 1..Len(bookings) : DoubleBooked(i, j)

\* C3: for a stored and a requested window in one timestamp format, the SQL conflict
\* condition is true exactly when the two half-open intervals share a point in time.
C3_ConflictIffMeet ==
    (/\ probe.kind = "conflict"
     /\ \A t \in {probe.stored[2], probe.requested[1], probe.requested[2]} :
            SameFormat(probe.stored[1], t))
    => (probe.conflict <=> Meet(probe.stored[1], probe.stored[2],
                                probe.requested[1], probe.requested[2]))

\* A requested window that starts exactly when the stored one ends: no conflict.
C3_Witness ==
    /\ probe.kind = "conflict"
    /\ SameFormat(probe.stored[1], probe.requested[2])
    /\ probe.stored[2] = probe.requested[1]
    /\ ~probe.conflict

\* The slots a search for [start, end) is to list: active, and no 'booked' booking of
\* the slot shares a point in time with the window.
FreeSlots(start, end) ==
    {slots[k] : k \in {k \in 1..Len(slots) :
        /\ slots[k].is_active = 1
        /\ ~\E i \in 1..Len(bookings) :
                /\ bookings[i].slot_id = slots[k].id /\ Booked(i)
                /\ Meet(bookings[i].start_time, bookings[i].end_time, start, end)}}

\* C4: a customer's search for a valid window lists exactly the active slots with no
\* overlapping 'booked' booking, in ascending slot_number order.
C4_SearchExact ==
    (last.op = "customer_search" /\ last.flash = "" /\ last.arg # <<>>)
    => /\ {last.rows[k] : k \in 1..Len(last.rows)} = FreeSlots(last.arg[1], last.arg[2])
       /\ \A k, l \in 1..Len(last.rows) :
                k < l => last.rows[k].slot_number < last.rows[l].slot_number

\* A search inside the window of a 'booked' booking: its slot is left out, others listed.
C4_Witness ==
    /\ last.op = "customer_search" /\ last.flash = "" /\ last.arg # <<>>
    /\ Len(last.rows) > 0
    /\ \E i \in 1..Len(bookings) :
            /\ Booked(i)
            /\ Time(bookings[i].start_time) <= Time(last.arg[1])
            /\ Time(last.arg[2]) < Time(bookings[i].end_time)
            /\ SelectById(slots, bookings[i].slot_id) # NoRow
            /\ SelectById(slots, bookings[i].slot_id).is_active = 1
            /\ \A k \in 1..Len(last.rows) : last.rows[k].id # bookings[i].slot_id

\* C5: a cancellation by a logged-in user who does not own the booking is refused and
\* changes no stored state; every change of a status from 'booked' to 'cancelled' is
\* made by a customer_cancel request whose session user owns the booking.
C5_OnlyOwnerCancels ==
    [][/\ \A c \in ConcClients, id \in BookingIdInputs :
            (/\ customer_cancel(c, id)
             /\ session[c] # 0
             /\ SelectById(bookings, id) # NoRow
             /\ SelectById(bookings, id).user_id # session[c])
            => (UNCHANGED <<users, slots, bookings, session>>
                /\ last'.flash = "Booking not found.")
       /\ \A i \in 1..Len(bookings) :
            (bookings[i].status = "booked" /\ bookings'[i].status = "cancelled")
            => (/\ last'.op = "customer_cancel"
                /\ last'.arg = <<bookings[i].id>>
                /\ \E c \in ConcClients : session[c] = bookings[i].user_id)]_vars

\* The 'booked' booking of customer 2 is still so after a cancellation was refused, and
\* customer 3 is logged in.
C5_Witness ==
    /\ last.op = "customer_cancel" /\ last.flash = "Booking not found."
    /\ \E c \in ConcClients, i \in 1..Len(bookings) :
            /\ last.arg = <<bookings[i].id>>
            /\ Booked(i)
            /\ bookings[i].user_id = 2
            /\ session[c] = 3

\* C6: the owner's cancellation of a booking that is no longer 'booked' is refused and
\* changes no stored state.
C6_CancelOnce ==
    [][\A c \in Clients, id \in BookingIdInputs :
            (/\ customer_cancel(c, id)
             /\ SelectById(bookings, id) # NoRow
             /\ SelectById(bookings, id).user_id = session[c]
             /\ SelectById(bookings, id).status # "booked")
            => (UNCHANGED <<users, slots, bookings, session>>
                /\ last'.flash = "Only active bookings can be cancelled.")]_vars

\* The owner asked again for the cancellation of a booking already cancelled.
C6_Witness ==
    /\ last.op = "customer_cancel" /\ last.flash = "Only active bookings can be cancelled."
    /\ \E c \in Clients, i \in 1..Len(bookings) :
            /\ last.arg = <<bookings[i].id>>
            /\ bookings[i].status = "cancelled"
            /\ session[c] = bookings[i].user_id

\* C7: a booking is created 'booked'; a status changes only from 'booked' to
\* 'cancelled'; a 'cancelled' booking stays so; no booking is ever 'completed'.
C7_StatusLifecycle ==
    [][/\ Len(bookings') >= Len(bookings)
       /\ \A i \in 1..Len(bookings') :
            IF i <= Len(bookings)
            THEN \/ bookings'[i].status = bookings[i].status
                 \/ bookings[i].status = "booked" /\ bookings'[i].status = "cancelled"
            ELSE bookings'[i].status = "booked"
       /\ \A i \in 1..Len(bookings') : bookings'[i].status # "completed"]_vars

\* A cancelled booking beside one made after it.
C7_Witness ==
    \E i, j \in 1..Len(bookings) :
        i < j /\ bookings[i].status = "cancelled" /\ bookings[j].status = "booked"

\* ceil(a / b) for a >= 0, b > 0.
Ceil(a, b) == (a + b - 1) \div b

\* C8: the amount is 20 x max(1, ceil(d / 3600)), d the seconds between the parsed
\* start and end, for every accepted window.
C8_AmountIsCeilOfHours ==
    probe.kind = "amount"
    => probe.amount =
          20 * Max({1, Ceil(Time(probe.requested[2]) - Time(probe.requested[1]), 3600000)})

\* C9: admin_set_slots by an admin with a count N in 1..10000 leaves exactly N slots,
\* all active, numbered 1..N.
C9_SetSlotsExact ==
    [][\A c \in Clients, countText \in CountInputs :
            (/\ admin_set_slots(c, countText)
             /\ admin_required(c) = ""
             /\ int(countText).ok /\ int(countText).n >= 1 /\ int(countText).n <= 10000)
            => /\ Len(slots') = int(countText).n
               /\ \A k \in 1..Len(slots') : slots'[k].is_active = 1
               /\ {slots'[k].slot_number : k \in 1..Len(slots')} = 1..int(countText).n
               /\ last'.flash = "Recreated slots."]_vars

\* The slot set was just recreated with two slots.
C9_Witness ==
    /\ last.op = "admin_set_slots" /\ last.flash = "Recreated slots." /\ last.arg = <<2>>
    /\ Len(slots) = 2

\* C10: the admin's listing holds every row of bookings, and a customer's listing
\* every booking of that customer.
C10_ListingsComplete ==
    \A i \in 1..Len(bookings) :
        /\ \E k \in 1..Len(AdminBookingRows) : AdminBookingRows[k].id = bookings[i].id
        /\ \E k \in 1..Len(CustomerBookingRows(bookings[i].user_id)) :
                CustomerBookingRows(bookings[i].user_id)[k].id = bookings[i].id

\* The handlers behind admin_required.
AdminOps == {"admin_dashboard", "admin_slots", "admin_toggle_slot", "admin_bookings",
             "admin_set_slots"}

\* C11: a request answered by an admin handler leaves the bookings table as it was:
\* no row inserted, deleted or modified, also on a slot just deactivated or deleted.
C11_AdminLeavesBookings ==
    [][last'.op \in AdminOps => bookings' = bookings]_vars

\* The slot set was just recreated without the slot of a 'booked' booking, which is
\* still there.
C11_Witness ==
    /\ last.op = "admin_set_slots" /\ last.flash = "Recreated slots."
    /\ \E i \in 1..Len(bookings) : Booked(i) /\ SelectById(slots, bookings[i].slot_id) = NoRow

\* The email a form value stands for: blanks around it removed, capitals lowered.
Normalised(rawEmail) == lower(strip(rawEmail))
UniqueEmails(table) ==
    \A i, j \in 1..Len(table) : table[i].email = table[j].email => i = j

\* C12: a registration whose trimmed, lower-cased email is that of an existing user
\* (the seeded admin included) is refused and leaves the users table as it was; no two
\* users ever have the same email.
C12_DuplicateEmailRefused ==
    [][/\ UniqueEmails(users) /\ UniqueEmails(users')
       /\ \A e \in EmailInputs :
            (/\ register(NameInput, e, "pw")
             /\ \E i \in 1..Len(users) : users[i].email = Normalised(e))
            => (users' = users /\ last'.flash = "Email already exists.")]_vars

\* A registration was refused while a customer is registered beside the admin.
C12_Witness ==
    /\ last.op = "register" /\ last.flash = "Email already exists."
    /\ Len(users) = 2
    /\ \E e \in EmailInputs : e # users[2].email /\ Normalised(e) = users[2].email

\* A window customer_book is to refuse: an end missing or unparsable, or the end not
\* after the start.
BadWindow(start, end) ==
    \/ start = Missing \/ end = Missing
    \/ ~fromisoformat(start).ok \/ ~fromisoformat(end).ok
    \/ Time(end) <= Time(start)
\* A count admin_set_slots is to refuse: no integer, or one outside 1..10000.
BadCount(countText) == ~int(countText).ok \/ int(countText).n \notin 1..10000

\* C13: a request that fails validation changes no table: customer_book with a bad
\* window, admin_set_slots with a bad count, customer_cancel with an id of no booking.
\* (A step that changes a table is none of these requests.)
C13_InvalidRequestChangesNothing ==
    [][\/ UNCHANGED db
       \/ /\ \A c \in Clients, id \in SlotIdInputs, w \in WindowInputs :
                BadWindow(w[1], w[2]) => ~customer_book(c, id, w[1], w[2])
          /\ \A c \in Clients, n \in CountInputs :
                BadCount(n) => ~admin_set_slots(c, n)
          /\ \A c \in Clients, id \in BookingIdInputs :
                SelectById(bookings, id) = NoRow => ~customer_cancel(c, id)]_vars

\* A customer with a booking was just refused a window that does not parse or does not
\* end after its start.
C13_Witness ==
    /\ last.op = "customer_book" /\ last.flash = "Invalid date/time"
    /\ \E c \in Clients, i \in 1..Len(bookings) : Booked(i) /\ bookings[i].user_id = session[c]

IsAdmin(c) == current_user(c) # NoRow /\ current_user(c).is_admin = 1
IsCustomer(c) == current_user(c) # NoRow /\ current_user(c).is_admin = 0

\* C14: the slots table changes only in an admin_toggle_slot or admin_set_slots request
\* of an admin's session; a booking is inserted only by a customer_book request of a
\* customer's session and is owned by that customer, so no booking is owned by an
\* admin; such a request of an unauthenticated session or of the wrong role changes no
\* table.
C14_RoleChecksGate ==
    [][/\ slots' # slots =>
            /\ last'.op \in {"admin_toggle_slot", "admin_set_slots"}
            /\ \E c \in Clients : IsAdmin(c)
       /\ Len(bookings') > Len(bookings) =>
            /\ last'.op = "customer_book"
            /\ \E c \in Clients :
                    IsCustomer(c) /\ bookings'[Len(bookings')].user_id = current_user(c).id
       /\ \A i \in 1..Len(bookings') :
            /\ SelectById(users', bookings'[i].user_id) # NoRow
            /\ SelectById(users', bookings'[i].user_id).is_admin = 0
       /\ \/ UNCHANGED db
          \/ \A c \in Clients :
                /\ ~IsAdmin(c) =>
                        /\ \A id \in SlotIdInputs : ~admin_toggle_slot(c, id)
                        /\ \A n \in CountInputs : ~admin_set_slots(c, n)
                /\ ~IsCustomer(c) =>
                        \A id \in SlotIdInputs, w \in WindowInputs :
                            ~customer_book(c, id, w[1], w[2])]_vars

\* A logged-in customer was just refused the toggling of a slot, which is still active.
C14_Witness ==
    /\ last.op = "admin_toggle_slot" /\ last.flash = "Admin access required."
    /\ \E c \in Clients : IsCustomer(c)
    /\ \A k \in 1..Len(slots) : slots[k].is_active = 1

\* The seeded account is the first row and the only admin.
OnlySeededAdmin(table) ==
    /\ Len(table) >= 1 /\ table[1].email = AdminEmail
    /\ {i \in 1..Len(table) : table[i].is_admin # 0} = {1}

\* C15: no step deletes a user or changes a field of a user row; the users table grows
\* only by one row of a registration, with is_admin = 0; the seeded account is the only
\* admin.
C15_UsersOnlyGrow ==
    [][/\ Len(users') >= Len(users)
       /\ \A i \in 1..Len(users) : users'[i] = users[i]
       /\ Len(users') > Len(users) =>
            /\ Len(users') = Len(users) + 1
            /\ last'.op = "register"
            /\ users'[Len(users')].is_admin = 0
       /\ OnlySeededAdmin(users) /\ OnlySeededAdmin(users')]_vars

\* A registered customer is logged in and has a booking; the server was started again.
C15_Witness ==
    /\ last.op = "init_db"
    /\ Len(users) = 2 /\ users[2].is_admin = 0
    /\ \E c \in Clients, i \in 1..Len(bookings) : session[c] = 2 /\ bookings[i].user_id = 2

\* The database init_db makes of an empty file.
FreshDatabase ==
    /\ Len(slots) = 20
    /\ \A k \in 1..Len(slots) : slots[k].slot_number = k /\ slots[k].is_active = 1
    /\ Len(users) = 1 /\ users[1].email = AdminEmail /\ users[1].is_admin = 1
    /\ bookings = <<>>

\* C16: init_db on an empty database leaves 20 active slots numbered 1..20 and the one
\* admin admin@example.com; init_db run again in any later state changes no table.
C16_InitDbIdempotent ==
    /\ FreshDatabase
    /\ [][last'.op = "init_db" => UNCHANGED db]_vars

\* init_db has just run again on a database with a customer, a booking and a slot
\* table that is no longer the seeded one.
C16_Witness ==
    /\ last.op = "init_db"
    /\ Len(users) = 2 /\ Len(bookings) > 0
    /\ \/ Len(slots) # 20
       \/ \E k \in 1..Len(slots) : slots[k].is_active = 0

\* C17: with requests run one at a time and windows in any formats fromisoformat
\* accepts, no two 'booked' rows of one slot cover a common moment.
C17_NoOverlapInAnyFormat ==
    \A i, j \in 1..Len(bookings) :
        (/\ i # j /\ Booked(i) /\ Booked(j)
         /\ bookings[i].slot_id = bookings[j].slot_id)
        => ~Meet(bookings[i].start_time, bookings[i].end_time,
                 bookings[j].start_time, bookings[j].end_time)

\* The slot table has an active row with this id.
ActiveSlot(table, slot_id) ==
    \E k \in 1..Len(table) : table[k].id = slot_id /\ table[k].is_active = 1

\* C18: customer_book for a slot id with no row, or with an inactive row, inserts no
\* booking and answers "Slot not available." to a customer with a valid window; every
\* booking is inserted for a slot that exists and is active at that moment.
C18_UnavailableSlotRefused ==
    [][/\ \/ bookings' = bookings
          \/ /\ \A c \in Clients, id \in SlotIdInputs, w \in WindowInputs :
                    ~ActiveSlot(slots, id) => ~customer_book(c, id, w[1], w[2])
             /\ Len(bookings') > Len(bookings) =>
                    ActiveSlot(slots, bookings'[Len(bookings')].slot_id)
       /\ (last'.op = "customer_book" /\ \E c \in Clients : IsCustomer(c)) =>
            \A c \in Clients, id \in SlotIdInputs, w \in Windows :
                (~ActiveSlot(slots, id) /\ customer_book(c, id, w[1], w[2]))
                => last'.flash = "Slot not available."]_vars

\* A customer was just refused a slot that has a row but is inactive, with no booking
\* in the table at all.
C18_Witness ==
    /\ last.op = "customer_book" /\ last.flash = "Slot not available."
    /\ bookings = <<>>
    /\ \E k \in 1..Len(slots) : slots[k].id \in SlotIdInputs /\ slots[k].is_active = 0

\* C19: every booking's slot_id is the id of a row of the slots table, and that row is
\* the slot the booking was made for. (A slot's id and slot_number are equal whenever
\* a booking is made: both count from 1 in init_db and in admin_set_slots.)
C19_BookingsReferToSlots ==
    \A i \in 1..Len(bookings) :
        \E k \in 1..Len(slots) :
            slots[k].id = bookings[i].slot_id /\ slots[k].slot_number = bookings[i].slot_id

\* C20: also with admin requests committing between the statements of customer_book,
\* a booking row is inserted only for a slot that exists and is active at the moment of
\* the INSERT.
C20_InsertOnlyIntoActiveSlot ==
    [][Len(bookings') > Len(bookings) =>
            ActiveSlot(slots, bookings'[Len(bookings')].slot_id)]_vars

\* The slot is among the rows a search for the window lists in this state.
Listed(slot_id, start, end) ==
    LET rows == SearchRows(start, end)
    IN  \E k \in 1..Len(rows) : rows[k].id = slot_id

\* C21: a customer's customer_book for slot s and a valid window W succeeds exactly
\* when a search for W in the same state lists s; on success one row is appended, with
\* the requesting user, s, W and status 'booked', and every other row is as before.
C21_BookIffListed ==
    [][last'.op = "customer_book" =>
        \A c \in Clients, id \in SlotIdInputs, w \in Windows :
            (IsCustomer(c) /\ customer_book(c, id, w[1], w[2])) =>
                /\ last'.flash = "Booked" <=> Listed(id, w[1], w[2])
                /\ last'.flash # "Booked" => bookings' = bookings
                /\ last'.flash = "Booked" =>
                        /\ Len(bookings') = Len(bookings) + 1
                        /\ SubSeq(bookings', 1, Len(bookings)) = bookings
                        /\ bookings'[Len(bookings')].user_id = current_user(c).id
                        /\ bookings'[Len(bookings')].slot_id = id
                        /\ bookings'[Len(bookings')].start_time = w[1]
                        /\ bookings'[Len(bookings')].end_time = w[2]
                        /\ bookings'[Len(bookings')].status = "booked"]_vars

\* A customer was just refused a slot that is active but booked in the window asked
\* for.
C21_Witness ==
    /\ last.op = "customer_book" /\ last.flash = "Sorry, this slot was just booked."
    /\ \E i \in 1..Len(bookings) : Booked(i) /\ ActiveSlot(slots, bookings[i].slot_id)

\* The latest request was a cancellation that went through; CancelledRow is its row.
JustCancelled == last.op = "customer_cancel" /\ last.flash = "Booking cancelled."
CancelledRow == SelectById(bookings, last.arg[1])
\* The 'booked' rows of a table on a slot with exactly this window.
BookedFor(table, slot_id, start, end) ==
    {i \in 1..Len(table) :
        /\ table[i].status = "booked" /\ table[i].slot_id = slot_id
        /\ table[i].start_time = start /\ table[i].end_time = end}
\* The slot of the cancelled row is active and no 'booked' row of the slot shares a
\* moment with the cancelled row's window.
FreedByCancel ==
    /\ ActiveSlot(slots, CancelledRow.slot_id)
    /\ \A i \in 1..Len(bookings) :
            (Booked(i) /\ bookings[i].slot_id = CancelledRow.slot_id)
            => ~Meet(bookings[i].start_time, bookings[i].end_time,
                     CancelledRow.start_time, CancelledRow.end_time)

\* C22: right after a cancellation that frees an active slot for the cancelled window,
\* a search for that window lists the slot, and the next customer_book of any customer
\* for the slot and the window succeeds and leaves exactly one 'booked' row for them.
C22_CancelledNeverBlocks ==
    [][(JustCancelled /\ FreedByCancel) =>
        /\ Listed(CancelledRow.slot_id, CancelledRow.start_time, CancelledRow.end_time)
        /\ \A c \in ConcClients :
            (/\ IsCustomer(c)
             /\ customer_book(c, CancelledRow.slot_id,
                               CancelledRow.start_time, CancelledRow.end_time))
            => /\ last'.flash = "Booked"
               /\ Cardinality(BookedFor(bookings', CancelledRow.slot_id,
                                         CancelledRow.start_time, CancelledRow.end_time)) = 1]_vars

\* One customer's cancelled booking and, made after it, another customer's 'booked'
\* one for the same slot and window.
C22_Witness ==
    /\ last.op = "customer_book" /\ last.flash = "Booked"
    /\ \E i, j \in 1..Len(bookings) :
            /\ i < j /\ bookings[i].status = "cancelled" /\ Booked(j)
            /\ bookings[i].user_id # bookings[j].user_id
            /\ bookings[i].slot_id = bookings[j].slot_id
            /\ bookings[i].start_time = bookings[j].start_time
            /\ bookings[i].end_time = bookings[j].end_time

\* The handlers behind login_required or admin_required.
ProtectedOps == AdminOps \cup {"customer_search", "customer_book", "customer_bookings",
                               "customer_cancel"}
\* The form's email is that of a user whose stored hash was made of the form's password.
GoodCredentials(rawEmail, pw) ==
    \E i \in 1..Len(users) :
        users[i].email = Normalised(rawEmail) /\ users[i].password_hash.hashed = pw

\* C23: a session gets a user id only in a login whose email is an existing user's and
\* whose password verifies against that user's hash; a failed login leaves the session
\* as it was; logout leaves the session without a user; a request to a protected
\* handler from a session without a user is turned away and changes no table.
C23_SessionOnlyByLogin ==
    [][/\ \A c \in Clients :
            (session'[c] # session[c] /\ session'[c] # 0)
            => (last'.op = "login" /\ last'.flash = "Welcome back!")
       /\ last'.op = "login" =>
            \A c \in Clients, e \in EmailInputs, pw \in PasswordInputs :
                login(c, e, pw) =>
                    IF GoodCredentials(e, pw)
                    THEN /\ SelectById(users, session'[c]) # NoRow
                         /\ SelectById(users, session'[c]).email = Normalised(e)
                    ELSE session' = session /\ last'.flash = "Invalid credentials."
       /\ last'.op = "logout" => \A c \in Clients : logout(c) => session'[c] = 0
       /\ (last'.op \in ProtectedOps /\ \A c \in Clients : session[c] = 0) =>
            /\ UNCHANGED <<users, slots, bookings, session>>
            /\ last'.flash \in {"Please log in first.", "Admin access required."}]_vars

\* After a logout, with a 'booked' booking in the table, a cancellation was turned away.
C23_Witness ==
    /\ last.op = "customer_cancel" /\ last.flash = "Please log in first."
    /\ \A c \in Clients : session[c] = 0
    /\ \E i \in 1..Len(bookings) : Booked(i)

\* C24: no step deletes a booking row or changes a field of it other than status; a
\* status is changed only by customer_cancel, and only that of the booking the request
\* names.
C24_BookingRowsKeepTheirFields ==
    [][/\ Len(bookings') >= Len(bookings)
       /\ \A i \in 1..Len(bookings) :
            /\ [bookings'[i] EXCEPT !.status = bookings[i].status] = bookings[i]
            /\ bookings'[i].status # bookings[i].status =>
                    /\ last'.op = "customer_cancel"
                    /\ last'.arg = <<bookings[i].id>>]_vars

\* A cancellation has just changed the named booking; another 'booked' row is beside it.
C24_Witness ==
    /\ last.op = "customer_cancel" /\ last.flash = "Booking cancelled."
    /\ \E i, j \in 1..Len(bookings) :
            /\ last.arg = <<bookings[i].id>> /\ bookings[i].status = "cancelled"
            /\ i # j /\ Booked(j)

====
